---- MODULE Spec2Model ----
(***************************************************************************)
(* PDG construction (pdg_generator.py, main.py generate_pdg) and the       *)
(* Weisfeiler-Lehman similarity scorer (wl_kernel.py, main.py).            *)
(*                                                                         *)
(* The scorer returns a Python float.  Floats are IEEE-754 binary64, so    *)
(* the model carries them as exact (mantissa, exponent) pairs and rounds   *)
(* every operation to nearest-even at 53 bits.  The mantissa does not fit  *)
(* a TLC integer, hence the small multi-limb arithmetic below.             *)
(***************************************************************************)
EXTENDS Integers, Sequences, FiniteSets, TLC

(***************************************************************************)
(* Natural numbers as little-endian sequences of limbs, no high zero limb. *)
(***************************************************************************)
LimbBits == 7 + 7
Base == 2 ^ LimbBits

RECURSIVE BNorm(_)
BNorm(a) == IF a = <<>> THEN <<>>
            ELSE IF a[Len(a)] = 0 THEN BNorm(SubSeq(a, 1, Len(a) - 1))
            ELSE a

RECURSIVE BFromInt(_)
BFromInt(n) == IF n = 0 THEN <<>> ELSE <<n % Base>> \o BFromInt(n \div Base)

Limb(a, i) == IF i <= Len(a) THEN a[i] ELSE 0

RECURSIVE BAddC(_, _, _, _)
BAddC(a, b, i, c) ==
    IF i > Len(a) /\ i > Len(b)
    THEN (IF c = 0 THEN <<>> ELSE <<c>>)
    ELSE LET s == Limb(a, i) + Limb(b, i) + c
         IN  <<s % Base>> \o BAddC(a, b, i + 1, s \div Base)

BAdd(a, b) == BAddC(a, b, 1, 0)

\* a - b for a >= b
RECURSIVE BSubC(_, _, _, _)
BSubC(a, b, i, c) ==
    IF i > Len(a) THEN <<>>
    ELSE LET s == Limb(a, i) - Limb(b, i) - c
         IN  IF s < 0 THEN <<s + Base>> \o BSubC(a, b, i + 1, 1)
             ELSE <<s>> \o BSubC(a, b, i + 1, 0)

BSub(a, b) == BNorm(BSubC(a, b, 1, 0))

\* -1, 0, 1 as a < b, a = b, a > b
RECURSIVE BCmpAt(_, _, _)
BCmpAt(a, b, i) ==
    IF i = 0 THEN 0
    ELSE IF a[i] < b[i] THEN -1
    ELSE IF a[i] > b[i] THEN 1
    ELSE BCmpAt(a, b, i - 1)

BCmp(a, b) == IF Len(a) < Len(b) THEN -1
              ELSE IF Len(a) > Len(b) THEN 1
              ELSE BCmpAt(a, b, Len(a))

RECURSIVE BMulLimbC(_, _, _, _)
BMulLimbC(a, d, i, c) ==
    IF i > Len(a)
    THEN (IF c = 0 THEN <<>> ELSE <<c>>)
    ELSE LET s == a[i] * d + c
         IN  <<s % Base>> \o BMulLimbC(a, d, i + 1, s \div Base)

BMulLimb(a, d) == IF d = 0 THEN <<>> ELSE BMulLimbC(a, d, 1, 0)

RECURSIVE Zeros(_)
Zeros(k) == IF k = 0 THEN <<>> ELSE <<0>> \o Zeros(k - 1)

RECURSIVE BMulAt(_, _, _)
BMulAt(a, b, i) ==
    IF i > Len(b) THEN <<>>
    ELSE BAdd(IF b[i] = 0 \/ a = <<>> THEN <<>> ELSE Zeros(i - 1) \o BMulLimb(a, b[i]),
              BMulAt(a, b, i + 1))

\* the shorter operand is the one walked
BMul(a, b) == IF Len(a) < Len(b) THEN BMulAt(b, a, 1) ELSE BMulAt(a, b, 1)

\* a * 2^k
BShl(a, k) == IF a = <<>> THEN <<>>
              ELSE Zeros(k \div LimbBits) \o BMulLimb(a, 2 ^ (k % LimbBits))

\* floor(a / 2^k)
RECURSIVE BShrAt(_, _, _)
BShrAt(d, r, i) ==
    IF i > Len(d) THEN <<>>
    ELSE <<(d[i] \div (2 ^ r)) + (Limb(d, i + 1) % (2 ^ r)) * (2 ^ (LimbBits - r))>>
         \o BShrAt(d, r, i + 1)

BShr(a, k) ==
    LET w == k \div LimbBits
        d == IF w >= Len(a) THEN <<>> ELSE SubSeq(a, w + 1, Len(a))
    IN  BNorm(BShrAt(d, k % LimbBits, 1))

RECURSIVE IntBitLen(_)
IntBitLen(n) == IF n = 0 THEN 0 ELSE 1 + IntBitLen(n \div 2)

BBitLen(a) == IF a = <<>> THEN 0
              ELSE LimbBits * (Len(a) - 1) + IntBitLen(a[Len(a)])

BOdd(a) == a # <<>> /\ a[1] % 2 = 1

\* the largest t < Base with d * t <= cur, found bit by bit from the top
RECURSIVE BDigit(_, _, _, _)
BDigit(cur, d, bit, acc) ==
    IF bit < 0 THEN acc
    ELSE LET t == acc + 2 ^ bit
         IN  IF BCmp(BMulLimb(d, t), cur) <= 0
             THEN BDigit(cur, d, bit - 1, t)
             ELSE BDigit(cur, d, bit - 1, acc)

\* <<floor(n / d), n mod d>> by long division over the limbs of n, d > 0
RECURSIVE BDivModAt(_, _, _)
BDivModAt(n, d, i) ==
    IF i > Len(n) THEN << <<>>, <<>> >>
    ELSE LET qr  == BDivModAt(n, d, i + 1)
             cur == BNorm(<<n[i]>> \o qr[2])
             t   == BDigit(cur, d, LimbBits - 1, 0)
         IN  << BNorm(<<t>> \o qr[1]), BSub(cur, BMulLimb(d, t)) >>

BDivMod(n, d) == BDivModAt(n, d, 1)

(***************************************************************************)
(* Non-negative binary64 values: [m, e] stands for m * 2^e, with m either  *)
(* zero or exactly Precision bits long, so that equal values are equal     *)
(* records.  Exponent range is never approached by the scorer's values.    *)
(***************************************************************************)
Precision == 53

FZero == [m |-> <<>>, e |-> 0]

\* n * 2^e (plus a non-zero fraction below the last bit when sticky) rounded to
\* nearest, ties to even
\* the rounded mantissa q1 may have grown to Precision + 1 bits
FRoundCarry(q1, e) ==
    IF BBitLen(q1) > Precision THEN [m |-> BShr(q1, 1), e |-> e + 1]
    ELSE [m |-> q1, e |-> e]

\* c compares the bits cut off with half a unit of q's last place
FRoundTie(q, c, e, sticky) ==
    FRoundCarry(IF c > 0 \/ (c = 0 /\ (sticky \/ BOdd(q))) THEN BAdd(q, <<1>>) ELSE q, e)

\* q is n without its s lowest bits
FRoundCut(n, q, s, e, sticky) ==
    FRoundTie(q, BCmp(BSub(n, BShl(q, s)), BShl(<<1>>, s - 1)), e + s, sticky)

FRoundLen(n, len, e, sticky) ==
    IF n = <<>> THEN FZero
    ELSE IF len <= Precision
    THEN [m |-> BShl(n, Precision - len), e |-> e - (Precision - len)]
    ELSE FRoundCut(n, BShr(n, len - Precision), len - Precision, e, sticky)

FRound(n, e, sticky) == FRoundLen(n, BBitLen(n), e, sticky)

FFromInt(n) == FRound(BFromInt(n), 0, FALSE)

\* both operands brought to the exponent e, the smaller of the two
FAddAt(x, y, e) ==
    FRound(BAdd(BShl(x.m, x.e - e), y.m), e, FALSE)

FAdd(x, y) ==
    IF x.m = <<>> THEN y
    ELSE IF y.m = <<>> THEN x
    ELSE IF x.e < y.e THEN FAddAt(y, x, x.e)
    ELSE FAddAt(x, y, y.e)

FMul(x, y) == FRound(BMul(x.m, y.m), x.e + y.e, FALSE)

GuardBits == Precision + 3

\* x / y for y # 0
FDivRound(qr, e) == FRound(qr[1], e, qr[2] # <<>>)

FDiv(x, y) == FDivRound(BDivMod(BShl(x.m, GuardBits), y.m), x.e - GuardBits - y.e)

\* x ** i for an int i >= 0: the exact power, rounded once
RECURSIVE BPow(_, _)
BPow(a, i) == IF i = 0 THEN <<1>> ELSE BMul(a, BPow(a, i - 1))

FPow(x, i) == FRound(BPow(x.m, i), x.e * i, FALSE)

FLeq(x, y) ==
    IF x.m = <<>> THEN TRUE
    ELSE IF y.m = <<>> THEN FALSE
    ELSE IF x.e # y.e THEN x.e < y.e
    ELSE BCmp(x.m, y.m) <= 0

FOne == FFromInt(1)


(***************************************************************************)
(* WL labels.  A label is a Python string built from node kinds, edge      *)
(* kinds and the separators | - _ and LEAF.  It is carried as the sequence *)
(* of those pieces: no piece is a prefix of another, so two strings are    *)
(* equal exactly when their piece sequences are, and str comparison is the *)
(* lexicographic order of the pieces taken in code-point order.            *)
(***************************************************************************)
TokOrder == << "-", "LEAF", "_", "assign", "control", "data", "decl", "default",
               "func_call", "if", "return", "unknown", "use", "|" >>

TokRank(t) == CHOOSE i \in 1..Len(TokOrder) : TokOrder[i] = t

\* a < b, a = b, a > b on str as -1, 0, 1
RECURSIVE StrCmpAt(_, _, _)
StrCmpAt(a, b, i) ==
    IF i > Len(a) /\ i > Len(b) THEN 0
    ELSE IF i > Len(a) THEN -1
    ELSE IF i > Len(b) THEN 1
    ELSE IF a[i] = b[i] THEN StrCmpAt(a, b, i + 1)
    ELSE IF TokRank(a[i]) < TokRank(b[i]) THEN -1 ELSE 1

StrLeq(a, b) == StrCmpAt(a, b, 1) <= 0

\* list.sort() on a list of str
RECURSIVE SortInsert(_, _)
SortInsert(x, s) ==
    IF s = <<>> THEN <<x>>
    ELSE IF StrLeq(x, s[1]) THEN <<x>> \o s
    ELSE <<s[1]>> \o SortInsert(x, Tail(s))

RECURSIVE SortStr(_)
SortStr(s) == IF s = <<>> THEN <<>> ELSE SortInsert(s[1], SortStr(Tail(s)))

\* '-'.join(s)
RECURSIVE JoinDash(_)
JoinDash(s) ==
    IF s = <<>> THEN <<>>
    ELSE IF Len(s) = 1 THEN s[1]
    ELSE s[1] \o <<"-">> \o JoinDash(Tail(s))

(***************************************************************************)
(* Graphs as the scorer reads them: nodes 1..n in insertion order, each    *)
(* with a 'type' attribute; edges as a map from ordered pairs to the edge  *)
(* 'type' (a DiGraph holds one edge per ordered pair).                     *)
(***************************************************************************)
Nodes(g) == 1..g.n

\* G.neighbors(n): the successors of n
Neighbors(g, n) == {nb \in Nodes(g) : <<n, nb>> \in DOMAIN g.edges}

RECURSIVE SetToSeq(_)
SetToSeq(S) == IF S = {} THEN <<>>
               ELSE LET x == CHOOSE y \in S : \A z \in S : y <= z
                    IN  <<x>> \o SetToSeq(S \ {x})

\* G.nodes[node].get('type', 'unknown'); "" stands for a node without the attribute
InitialLabel(g, n) == IF g.type[n] = "" THEN <<"unknown">> ELSE <<g.type[n]>>

InitLabels(g) == [n \in Nodes(g) |-> InitialLabel(g, n)]

\* Counter([G.nodes[n]['wl_label'] for n in G.nodes])
Histogram(g, lab) ==
    [l \in {lab[n] : n \in Nodes(g)} |-> Cardinality({n \in Nodes(g) : lab[n] = l})]

\* f"{G.nodes[nb]['wl_label']}_{G.edges[n, nb].get('type', 'default')}"
NeighborText(g, lab, n, nb) == lab[nb] \o <<"_">> \o <<g.edges[<<n, nb>>]>>

\* the label relabel() computes for node n from the labels lab now stored in G
NewLabel(g, lab, n) ==
    LET nbs       == SetToSeq(Neighbors(g, n))
        neighbors == SortStr([k \in 1..Len(nbs) |-> NeighborText(g, lab, n, nbs[k])])
    IN  lab[n] \o <<"|">> \o (IF neighbors = <<>> THEN <<"LEAF">> ELSE JoinDash(neighbors))

\* first loop of relabel(): new_labels filled node by node, G's labels untouched
RECURSIVE RelabelCollect(_, _, _, _)
RelabelCollect(g, lab, new, k) ==
    IF k > g.n THEN new
    ELSE RelabelCollect(g, lab, new @@ (k :> NewLabel(g, lab, k)), k + 1)

\* second loop of relabel(): G.nodes[n]['wl_label'] = lbl for every entry
ApplyLabels(lab, new) == [n \in DOMAIN lab |-> IF n \in DOMAIN new THEN new[n] ELSE lab[n]]

Relabel(g, lab) == ApplyLabels(lab, RelabelCollect(g, lab, <<>>, 1))

(***************************************************************************)
(* The PDG builder.  Statement-tree nodes are records tagged by their      *)
(* pycparser class in field k.  NoNode stands for a current_node of None,   *)
(* None for an absent subtree.                                             *)
(***************************************************************************)
NoNode == 0 - 1

Constant(v) == [k |-> "Constant", value |-> v]
ID(n) == [k |-> "ID", name |-> n]
BinaryOp(op, l, r) == [k |-> "BinaryOp", op |-> op, left |-> l, right |-> r]
\* args is the list of node.args.exprs, empty when node.args is None
FuncCall(f, args) == [k |-> "FuncCall", name |-> ID(f), args |-> args]
Assignment(op, l, r) == [k |-> "Assignment", op |-> op, lvalue |-> l, rvalue |-> r]
ExprList(es) == [k |-> "ExprList", exprs |-> es]
None == [k |-> "None"]
\* init and expr are None when absent
Decl(n, init) == [k |-> "Decl", name |-> n, init |-> init]
Return(e) == [k |-> "Return", expr |-> e]

RECURSIVE JoinComma(_)
JoinComma(s) ==
    IF s = <<>> THEN ""
    ELSE IF Len(s) = 1 THEN s[1]
    ELSE s[1] \o ", " \o JoinComma(Tail(s))

RECURSIVE get_text(_)
get_text(node) ==
    IF node.k = "Constant" THEN node.value
    ELSE IF node.k = "ID" THEN node.name
    ELSE IF node.k = "BinaryOp"
    THEN "(" \o get_text(node.left) \o " " \o node.op \o " " \o get_text(node.right) \o ")"
    ELSE IF node.k = "Assignment"
    THEN get_text(node.lvalue) \o " " \o node.op \o " " \o get_text(node.rvalue)
    ELSE IF node.k = "UnaryOp" THEN node.op \o get_text(node.expr)
    ELSE IF node.k = "FuncCall"
    THEN "Call " \o get_text(node.name) \o "("
             \o JoinComma([i \in 1..Len(node.args) |-> get_text(node.args[i])]) \o ")"
    ELSE "?"

\* the children NodeVisitor.generic_visit walks, in order
Children(node) ==
    IF node.k = "BinaryOp" THEN <<node.left, node.right>>
    ELSE IF node.k = "UnaryOp" THEN <<node.expr>>
    ELSE IF node.k = "Assignment" THEN <<node.lvalue, node.rvalue>>
    ELSE IF node.k = "FuncCall"
    THEN (IF node.args = <<>> THEN <<node.name>> ELSE <<node.name, ExprList(node.args)>>)
    ELSE IF node.k = "ExprList" THEN node.exprs
    ELSE <<>>

(***************************************************************************)
(* The builder's state b: the graph (nodes in insertion order, edges as a  *)
(* map from ordered pairs to the edge type, one edge per pair as in a      *)
(* DiGraph), node_id, last_assignment and the visitor's current_node.      *)
(* made is bookkeeping for the properties, one entry per node: the         *)
(* current node just before the node was added, the name an assign node    *)
(* assigns, and for a use node the name used and the                       *)
(* entry last_assignment held for it.                                      *)
(***************************************************************************)
EmptyGraph == [nodes |-> <<>>, edges |-> <<>>]

\* PDGGenerator.__init__, and the locals generate_pdg starts with
NewBuilder ==
    [nodes |-> <<>>, edges |-> <<>>, node_id |-> 0, last_assignment |-> <<>>,
     current_node |-> NoNode, made |-> <<>>]

\* DiGraph.add_edge(u, v, type=t): a second edge over the same pair replaces the type
add_edge(edges, u, v, t) ==
    [p \in DOMAIN edges \cup {<<u, v>>} |-> IF p = <<u, v>> THEN t ELSE edges[p]]

add_node(b, label, node_type) ==
    LET nid == b.node_id
    IN  [b EXCEPT
            !.nodes = Append(b.nodes, [id |-> nid, label |-> label, type |-> node_type]),
            !.edges = IF b.current_node # NoNode
                      THEN add_edge(b.edges, b.current_node, nid, "control")
                      ELSE b.edges,
            !.current_node = nid,
            !.node_id = b.node_id + 1,
            !.made = Append(b.made, [prev |-> b.current_node, lval |-> "", stmt |-> FALSE,
                                     use |-> "", from |-> NoNode])]

\* the position in nodes and made of the node with id nid
Pos(b, nid) == CHOOSE i \in 1..Len(b.nodes) : b.nodes[i].id = nid

visit_FuncCall(b, node) ==
    add_node(b, "Call " \o get_text(node.name) \o "("
                    \o JoinComma([i \in 1..Len(node.args) |-> get_text(node.args[i])])
                    \o ")", "func_call")

visit_ID(b, node) ==
    IF node.name \in DOMAIN b.last_assignment
    THEN LET b1      == add_node(b, "Use " \o node.name, "use")
             use_nid == b.node_id
             src     == b.last_assignment[node.name]
         IN  [b1 EXCEPT
                 !.edges = add_edge(b1.edges, src, use_nid, "data"),
                 !.made = [b1.made EXCEPT ![Len(b1.made)].use = node.name,
                                          ![Len(b1.made)].from = src]]
    ELSE b

\* last_assignment[lval] = nid
SetLast(la, lval, nid) == [x \in DOMAIN la \cup {lval} |-> IF x = lval THEN nid ELSE la[x]]

RECURSIVE visit(_, _)
RECURSIVE visit_all(_, _, _)
RECURSIVE visit_Assignment(_, _)

\* NodeVisitor.generic_visit: every child is visited, in order
generic_visit(b, node) == visit_all(b, Children(node), 1)

visit_all(b, children, i) ==
    IF i > Len(children) THEN b ELSE visit_all(visit(b, children[i]), children, i + 1)

\* last_assignment[lval] = nid, then generic_visit(node.rvalue)
RecordAndRecurse(b, node, lval, nid) ==
    generic_visit([b EXCEPT !.last_assignment = SetLast(b.last_assignment, lval, nid),
                            !.made = [b.made EXCEPT ![Pos(b, nid)].lval = lval,
                                                 ![Pos(b, nid)].stmt = TRUE]],
                  node.rvalue)

visit_Assignment(b, node) ==
    LET lval == get_text(node.lvalue)
    IN  IF node.rvalue.k = "FuncCall"
        THEN LET b1      == visit_FuncCall(b, node.rvalue)
                 call_id == b.node_id
                 b2      == add_node(b1, lval \o " " \o node.op \o " [call]", "assign")
                 nid     == b1.node_id
             IN  RecordAndRecurse([b2 EXCEPT !.edges = add_edge(b2.edges, nid, call_id, "data")],
                                  node, lval, nid)
        ELSE LET b2  == add_node(b, lval \o " " \o node.op \o " " \o get_text(node.rvalue),
                                 "assign")
             IN  RecordAndRecurse(b2, node, lval, b.node_id)

\* bookkeeping: the newest node assigns name
Assigns(b, name) == [b EXCEPT !.made = [b.made EXCEPT ![Len(b.made)].lval = name]]

visit_Decl(b, node) ==
    LET b0 == add_node(b, "Decl " \o node.name, "decl")
    IN  IF node.init.k = "None" THEN b0
        ELSE IF node.init.k = "FuncCall"
        THEN LET b1        == visit_FuncCall(b0, node.init)
                 call_id   == b0.node_id
                 b2        == add_node(b1, node.name \o " = [call]", "assign")
                 assign_id == b1.node_id
             IN  Assigns([b2 EXCEPT !.edges = add_edge(b2.edges, assign_id, call_id, "data")],
                         node.name)
        ELSE Assigns(add_node(b0, node.name \o " = " \o get_text(node.init), "assign"),
                     node.name)

visit_Return(b, node) ==
    IF node.expr.k = "None" THEN add_node(b, "Return", "return")
    ELSE generic_visit(add_node(b, "Return " \o get_text(node.expr), "return"), node.expr)

\* NodeVisitor.visit: the handler of the node's class, generic_visit without one
visit(b, node) ==
    IF node.k = "ID" THEN visit_ID(b, node)
    ELSE IF node.k = "FuncCall" THEN visit_FuncCall(b, node)
    ELSE IF node.k = "Assignment" THEN visit_Assignment(b, node)
    ELSE IF node.k = "Decl" THEN visit_Decl(b, node)
    ELSE IF node.k = "Return" THEN visit_Return(b, node)
    ELSE generic_visit(b, node)

(***************************************************************************)
(* The scorer, weisfeiler_lehman_kernel(G1, G2, h).  Two copies exist:     *)
(* "wl_kernel" (wl_kernel.py) and "main" (main.py).  Graph objects are     *)
(* named by ids: G1 and G2 are the same object when their ids are equal,   *)
(* and the wl_label attributes live in the object, not in the argument.    *)
(***************************************************************************)
Impls == {"wl_kernel", "main"}

\* len(range(k))
RangeLen(k) == IF k > 0 THEN k ELSE 0

\* the float literal 0.8: the binary64 nearest to 8/10
Point8 == FDiv(FFromInt(8), FFromInt(10))

\* sum(ws) for a list of floats: left-to-right additions starting from 0
RECURSIVE FSum(_, _)
FSum(ws, k) == IF k = 0 THEN FZero ELSE FAdd(FSum(ws, k - 1), ws[k])

\* main.py: weights = [1.0]; for i in range(h): weights.append(weights[-1] * 0.8)
RECURSIVE DecayList(_)
DecayList(k) == IF k = 0 THEN <<FOne>>
                ELSE LET w == DecayList(k - 1) IN Append(w, FMul(w[Len(w)], Point8))

\* wl_kernel.py: [0.8**i for i in range(h+1)]
RECURSIVE PowList(_)
PowList(k) == IF k = 0 THEN <<>> ELSE Append(PowList(k - 1), FPow(Point8, k - 1))

RawWeights(im, hh) == IF im = "main" THEN DecayList(RangeLen(hh))
                      ELSE PowList(RangeLen(hh + 1))

\* [w / total_weight for w in weights]
RECURSIVE NormaliseAll(_, _, _)
NormaliseAll(raw, total, k) ==
    IF k = 0 THEN <<>> ELSE Append(NormaliseAll(raw, total, k - 1), FDiv(raw[k], total))

\* total_weight = sum(weights); weights = [w / total_weight for w in weights]
WeightsNormalised(raw, total) ==
    [total_weight |-> total, weights |-> NormaliseAll(raw, total, Len(raw))]

WeightsFrom(raw) == WeightsNormalised(raw, FSum(raw, Len(raw)))

WeightsOf(im, hh) == WeightsFrom(RawWeights(im, hh))

\* intersection / union on two ints, union > 0
RatioOf(a, b) == FDiv(FFromInt(a), FFromInt(b))

Min(a, b) == IF a < b THEN a ELSE b
Max(a, b) == IF a > b THEN a ELSE b

HGet(hist, l) == IF l \in DOMAIN hist THEN hist[l] ELSE 0

RECURSIVE SumOver(_, _, _, _)
SumOver(S, h1, h2, useMin) ==
    IF S = {} THEN 0
    ELSE LET l == CHOOSE x \in S : TRUE
         IN  (IF useMin THEN Min(HGet(h1, l), HGet(h2, l)) ELSE Max(HGet(h1, l), HGet(h2, l)))
             + SumOver(S \ {l}, h1, h2, useMin)

AllLabels(h1, h2) == DOMAIN h1 \cup DOMAIN h2

\* sum(min(h1.get(l, 0), h2.get(l, 0)) for l in all_labels)
Intersect(h1, h2) == SumOver(AllLabels(h1, h2), h1, h2, TRUE)

\* a union that counts the first histogram alone
UnionOfFirst(h1, h2) == SumOver(DOMAIN h1, h1, h1, FALSE)

\* sum(max(h1.get(l, 0), h2.get(l, 0)) for l in all_labels)
Union(h1, h2) == SumOver(AllLabels(h1, h2), h1, h2, FALSE)

(***************************************************************************)
(* Bounds of the scorer's inputs.                                          *)
(***************************************************************************)
NodeIds == {1, 2}
InKinds == {"assign", "use"}
EdgeKinds == {"control", "data"}
MaxEdges == 2
MaxRounds == 2
DeepRounds == 13
MaxNegRounds == 1

\* The weights depend on the copy and on h alone: they are computed once for every h
\* an input can carry, the long run's first.
RECURSIVE WeightsRow(_, _)
WeightsRow(im, k) ==
    IF k < 0 THEN <<>>
    ELSE Append(WeightsRow(im, k - 1),
                WeightsOf(im, IF k = 0 THEN DeepRounds ELSE k - 1 - MaxNegRounds))

ImplSeq == <<"main", "wl_kernel">>

RECURSIVE WeightsRows(_)
WeightsRows(i) ==
    IF i = 0 THEN <<>>
    ELSE Append(WeightsRows(i - 1), WeightsRow(ImplSeq[i], MaxNegRounds + MaxRounds + 1))

WeightsTable == WeightsRows(Len(ImplSeq))

WeightsMemo(im, hh) ==
    WeightsTable[IF im = "main" THEN 1 ELSE 2][IF hh = DeepRounds THEN 1
                                               ELSE hh + MaxNegRounds + 2]

(***************************************************************************)
(* One call of the scorer, as steps over its local state f.                *)
(***************************************************************************)
KFrame0(objs) ==
    [pc |-> "start", wl |-> [o \in objs |-> <<>>], hist1 |-> <<>>, hist2 |-> <<>>,
     weights |-> <<>>, total_weight |-> FZero, similarity |-> FZero, idx |-> 0,
     outcome |-> "running"]

\* the initialisation loop over [G1, G2] and the round-0 histograms
KStart(im, GG, a1, a2, hh, f) ==
    LET w1 == [f.wl EXCEPT ![a1] = InitLabels(GG[a1])]
        w2 == [w1 EXCEPT ![a2] = InitLabels(GG[a2])]
    IN  [f EXCEPT !.pc = "rounds", !.wl = w2,
                  !.hist1 = <<Histogram(GG[a1], w2[a1])>>,
                  !.hist2 = <<Histogram(GG[a2], w2[a2])>>]

\* wl_kernel.py: relabel(G1); relabel(G2)
RoundWlKernel(GG, a1, a2, wl0) ==
    LET w1 == [wl0 EXCEPT ![a1] = Relabel(GG[a1], wl0[a1])]
    IN  [w1 EXCEPT ![a2] = Relabel(GG[a2], w1[a2])]

\* main.py: both new_labels dicts are filled, then both are applied
RoundMain(GG, a1, a2, wl0) ==
    LET new1 == RelabelCollect(GG[a1], wl0[a1], <<>>, 1)
        new2 == RelabelCollect(GG[a2], wl0[a2], <<>>, 1)
        w1   == [wl0 EXCEPT ![a1] = ApplyLabels(wl0[a1], new1)]
    IN  [w1 EXCEPT ![a2] = ApplyLabels(w1[a2], new2)]

\* one iteration of the relabelling loop, histograms appended
KRound(im, GG, a1, a2, hh, f) ==
    LET w == IF im = "main" THEN RoundMain(GG, a1, a2, f.wl)
             ELSE RoundWlKernel(GG, a1, a2, f.wl)
    IN  [f EXCEPT !.wl = w,
                  !.hist1 = Append(f.hist1, Histogram(GG[a1], w[a1])),
                  !.hist2 = Append(f.hist2, Histogram(GG[a2], w[a2]))]

\* the weights, normalised
KWeightsSet(f, w) ==
    [f EXCEPT !.pc = "accum", !.idx = 0, !.weights = w.weights,
              !.total_weight = w.total_weight]

KWeights(im, GG, a1, a2, hh, f) == KWeightsSet(f, WeightsMemo(im, hh))

\* one iteration of the final loop, for i = f.idx
\* wl_kernel.py adds weights[i] * 0 when union is 0, main.py skips the round
KAccumTerm(im, f, w, intersect, union) ==
    IF union = 0 /\ im = "main" THEN f.similarity
    ELSE FAdd(f.similarity, FMul(w, IF union > 0 THEN RatioOf(intersect, union) ELSE FZero))

KAccumRound(im, f, h1, h2) ==
    [f EXCEPT !.idx = f.idx + 1,
              !.similarity = KAccumTerm(im, f, f.weights[f.idx + 1],
                                        Intersect(h1, h2), Union(h1, h2))]

KAccum(im, GG, a1, a2, hh, f) ==
    KAccumRound(im, f, f.hist1[f.idx + 1], f.hist2[f.idx + 1])

KReturn(im, GG, a1, a2, hh, f) == [f EXCEPT !.pc = "done", !.outcome = "returned"]

RoundsLeft(hh, f) == Len(f.hist1) - 1 < RangeLen(hh)
AccumLeft(hh, f) == f.idx < RangeLen(hh + 1)

\* the whole call, run to its return
RECURSIVE KRun(_, _, _, _, _, _)
KRun(im, GG, a1, a2, hh, f) ==
    IF f.pc = "start" THEN KRun(im, GG, a1, a2, hh, KStart(im, GG, a1, a2, hh, f))
    ELSE IF f.pc = "rounds" /\ RoundsLeft(hh, f)
    THEN KRun(im, GG, a1, a2, hh, KRound(im, GG, a1, a2, hh, f))
    ELSE IF f.pc = "rounds" THEN KRun(im, GG, a1, a2, hh, KWeights(im, GG, a1, a2, hh, f))
    ELSE IF f.pc = "accum" /\ AccumLeft(hh, f)
    THEN KRun(im, GG, a1, a2, hh, KAccum(im, GG, a1, a2, hh, f))
    ELSE IF f.pc = "accum" THEN KReturn(im, GG, a1, a2, hh, f)
    ELSE f

(***************************************************************************)
(* Input graphs of the scorer: nodes drawn from NodeIds in order, of two   *)
(* kinds, edges over all ordered pairs, self-loops included.               *)
(***************************************************************************)
GraphsOf(n) ==
    {[n |-> n, type |-> t, edges |-> e] :
        t \in [1..n -> InKinds],
        e \in UNION {[S -> EdgeKinds] : S \in SUBSET ((1..n) \X (1..n))}}

Graphs == UNION {GraphsOf(n) : n \in 0..Cardinality(NodeIds)}

EdgeCount(g) == Cardinality(DOMAIN g.edges)

\* the pairs of graphs a call is given
GraphPairs ==
    {<<g1, g2>> \in Graphs \X Graphs :
        /\ g1.n + g2.n <= Cardinality(NodeIds) + 1
        /\ EdgeCount(g1) + EdgeCount(g2) <= MaxEdges}

SingleGraphs == {g \in Graphs : EdgeCount(g) <= MaxEdges}

\* the graphs the long run is given: no edges, at most one node
PlainGraphs == {g \in Graphs : g.n <= 1 /\ EdgeCount(g) = 0}

VARIABLES impl, G, arg1, arg2, h,
          pc, wl, hist1, hist2, weights, total_weight, similarity, idx, outcome,
          nodes, edges, node_id, last_assignment, current_node, made,
          stack, bpc, inst, tree, returned, nstmts

kinputs == <<impl, G, arg1, arg2, h>>
klocals == <<pc, wl, hist1, hist2, weights, total_weight, similarity, idx, outcome>>
kvars == <<kinputs, klocals>>
bstate == <<nodes, edges, node_id, last_assignment, current_node, made>>
bvars == <<bstate, stack, bpc, inst, tree, returned, nstmts>>
vars == <<kvars, bvars>>

\* no build is under way
BuilderOff ==
    /\ nodes = <<>>
    /\ edges = <<>>
    /\ node_id = 0
    /\ last_assignment = <<>>
    /\ current_node = NoNode
    /\ made = <<>>
    /\ stack = <<>>
    /\ bpc = "off"
    /\ inst = 0
    /\ tree = <<>>
    /\ returned = <<>>
    /\ nstmts = 0

\* no call of the scorer is under way
ScorerOff ==
    /\ impl = "main"
    /\ G = <<>>
    /\ arg1 = 1
    /\ arg2 = 1
    /\ h = 0
    /\ pc = "off"
    /\ wl = <<>>
    /\ hist1 = <<>>
    /\ hist2 = <<>>
    /\ weights = <<>>
    /\ total_weight = FZero
    /\ similarity = FZero
    /\ idx = 0
    /\ outcome = "running"

Frame == [pc |-> pc, wl |-> wl, hist1 |-> hist1, hist2 |-> hist2, weights |-> weights,
          total_weight |-> total_weight, similarity |-> similarity, idx |-> idx,
          outcome |-> outcome]

SetFrame(f) ==
    /\ pc' = f.pc
    /\ wl' = f.wl
    /\ hist1' = f.hist1
    /\ hist2' = f.hist2
    /\ weights' = f.weights
    /\ total_weight' = f.total_weight
    /\ similarity' = f.similarity
    /\ idx' = f.idx
    /\ outcome' = f.outcome

\* G1 and G2 are two objects, or one object passed twice; h is small, or DeepRounds
\* on the plain graphs
KInputs ==
    {[G |-> <<g>>, arg1 |-> 1, arg2 |-> 1, h |-> hh] :
        hh \in (0 - MaxNegRounds)..MaxRounds, g \in SingleGraphs}
    \cup
    {[G |-> gg, arg1 |-> 1, arg2 |-> 2, h |-> hh] :
        hh \in (0 - MaxNegRounds)..MaxRounds, gg \in GraphPairs}
    \cup
    {[G |-> <<g>>, arg1 |-> 1, arg2 |-> 1, h |-> DeepRounds] : g \in PlainGraphs}
    \cup
    {[G |-> <<g1, g2>>, arg1 |-> 1, arg2 |-> 2, h |-> DeepRounds] :
        g1 \in PlainGraphs, g2 \in PlainGraphs}

KInit ==
    /\ impl \in Impls
    /\ \E in \in KInputs :
          /\ G = in.G
          /\ arg1 = in.arg1
          /\ arg2 = in.arg2
          /\ h = in.h
    /\ pc = "start"
    /\ wl = [o \in DOMAIN G |-> <<>>]
    /\ hist1 = <<>>
    /\ hist2 = <<>>
    /\ weights = <<>>
    /\ total_weight = FZero
    /\ similarity = FZero
    /\ idx = 0
    /\ outcome = "running"
    /\ BuilderOff

KernelStart ==
    /\ pc = "start"
    /\ SetFrame(KStart(impl, G, arg1, arg2, h, Frame))
    /\ UNCHANGED <<kinputs, bvars>>

KernelRound ==
    /\ pc = "rounds"
    /\ RoundsLeft(h, Frame)
    /\ SetFrame(KRound(impl, G, arg1, arg2, h, Frame))
    /\ UNCHANGED <<kinputs, bvars>>

KernelWeights ==
    /\ pc = "rounds"
    /\ ~RoundsLeft(h, Frame)
    /\ SetFrame(KWeights(impl, G, arg1, arg2, h, Frame))
    /\ UNCHANGED <<kinputs, bvars>>

KernelAccum ==
    /\ pc = "accum"
    /\ AccumLeft(h, Frame)
    /\ SetFrame(KAccum(impl, G, arg1, arg2, h, Frame))
    /\ UNCHANGED <<kinputs, bvars>>

KernelReturn ==
    /\ pc = "accum"
    /\ ~AccumLeft(h, Frame)
    /\ SetFrame(KReturn(impl, G, arg1, arg2, h, Frame))
    /\ UNCHANGED <<kinputs, bvars>>

KNext == KernelStart \/ KernelRound \/ KernelWeights \/ KernelAccum \/ KernelReturn

SpecWL == KInit /\ [][KNext]_vars

(***************************************************************************)
(* The builder as a state machine.  The statements of a tree are visited   *)
(* in order, each drawn when it is reached; tree records them.  A          *)
(* conditional is entered, its branches' statements are visited, and each  *)
(* branch is left again; stack holds the conditionals under way.           *)
(***************************************************************************)
MaxStmts == 3
MaxCalls == 2
MaxDepth == 1

Names == {"x", "y"}
RValues == {Constant("5"), ID("x"), BinaryOp("+", ID("x"), Constant("5")),
            BinaryOp("+", ID("x"), ID("y")), FuncCall("f", <<ID("x")>>)}
Inits == {None, Constant("5"), FuncCall("f", <<>>)}
ReturnExprs == {None, ID("x"), BinaryOp("+", ID("x"), Constant("5"))}
Conds == {BinaryOp("<", ID("x"), Constant("5"))}

Builder == [nodes |-> nodes, edges |-> edges, node_id |-> node_id,
            last_assignment |-> last_assignment, current_node |-> current_node,
            made |-> made]

SetBuilder(b) ==
    /\ nodes' = b.nodes
    /\ edges' = b.edges
    /\ node_id' = b.node_id
    /\ last_assignment' = b.last_assignment
    /\ current_node' = b.current_node
    /\ made' = b.made

BInit ==
    /\ nodes = <<>>
    /\ edges = <<>>
    /\ node_id = 0
    /\ last_assignment = <<>>
    /\ current_node = NoNode
    /\ made = <<>>
    /\ stack = <<>>
    /\ bpc = "idle"
    /\ inst = 0
    /\ tree = <<>>
    /\ returned = <<>>
    /\ nstmts = 0
    /\ ScorerOff

\* gen = PDGGenerator()
NewGenerator ==
    /\ bpc = "idle"
    /\ inst < MaxCalls
    /\ Len(returned) < MaxCalls
    /\ SetBuilder(NewBuilder)
    /\ inst' = inst + 1
    /\ UNCHANGED <<stack, bpc, tree, returned, nstmts, kvars>>

\* gen.generate(ast) up to the first visit: a new Visitor on the generator's fields
Generate ==
    /\ bpc = "idle"
    /\ inst > 0
    /\ Len(returned) < MaxCalls
    /\ current_node' = NoNode
    /\ stack' = <<>>
    /\ tree' = <<>>
    /\ bpc' = "visiting"
    /\ UNCHANGED <<nodes, edges, node_id, last_assignment, made, inst, returned, nstmts, kvars>>

\* main.py: generate_pdg(ast) up to the first visit
GeneratePdg ==
    /\ bpc = "idle"
    /\ inst < MaxCalls
    /\ Len(returned) < MaxCalls
    /\ SetBuilder(NewBuilder)
    /\ inst' = inst + 1
    /\ stack' = <<>>
    /\ tree' = <<>>
    /\ bpc' = "visiting"
    /\ UNCHANGED <<returned, nstmts, kvars>>

Visiting == bpc = "visiting" /\ nstmts < MaxStmts

Visited(stmt, b) ==
    /\ SetBuilder(b)
    /\ tree' = Append(tree, stmt)
    /\ nstmts' = nstmts + 1
    /\ UNCHANGED <<stack, bpc, inst, returned, kvars>>

VisitDecl ==
    /\ Visiting
    /\ \E n \in Names, init \in Inits :
          Visited(Decl(n, init), visit_Decl(Builder, Decl(n, init)))

VisitAssignment ==
    /\ Visiting
    /\ \E n \in Names, r \in RValues :
          Visited(Assignment("=", ID(n), r), visit_Assignment(Builder, Assignment("=", ID(n), r)))

VisitFuncCall ==
    /\ Visiting
    /\ \E a \in {<<>>, <<ID("x")>>} :
          Visited(FuncCall("f", a), visit_FuncCall(Builder, FuncCall("f", a)))

VisitReturn ==
    /\ Visiting
    /\ \E e \in ReturnExprs : Visited(Return(e), visit_Return(Builder, Return(e)))

\* the branch visit_If turns to after the if node (first = TRUE) or after the true
\* branch: old = self.current_node; self.current_node = cond_nid
EnterBranch(b, cond_nid, first, iftrue, iffalse) ==
    IF first /\ iftrue
    THEN <<[cond_nid |-> cond_nid, old |-> b.current_node, branch |-> "true",
            iffalse |-> iffalse]>>
    ELSE IF iffalse
    THEN <<[cond_nid |-> cond_nid, old |-> b.current_node, branch |-> "false",
            iffalse |-> FALSE]>>
    ELSE <<>>

\* visit_If up to the visit of its first branch
VisitIf ==
    /\ Visiting
    /\ Len(stack) < MaxDepth
    /\ \E cond \in Conds, iftrue \in BOOLEAN, iffalse \in BOOLEAN :
          LET b1       == add_node(Builder, "If " \o get_text(cond) \o "?", "if")
              cond_nid == node_id
              frame    == EnterBranch(b1, cond_nid, TRUE, iftrue, iffalse)
          IN  /\ SetBuilder(IF frame = <<>> THEN b1 ELSE [b1 EXCEPT !.current_node = cond_nid])
              /\ stack' = frame \o stack
              /\ tree' = Append(tree, [k |-> "If", cond |-> cond, iftrue |-> iftrue,
                                       iffalse |-> iffalse])
              /\ nstmts' = nstmts + 1
              /\ UNCHANGED <<bpc, inst, returned, kvars>>

\* visit_If from the return of a branch's visit: the edge to the branch's last node,
\* current_node restored, and the false branch entered when there is one left
LeaveBranch ==
    /\ bpc = "visiting"
    /\ stack # <<>>
    /\ LET f     == Head(stack)
           b1    == [Builder EXCEPT
                        !.edges = add_edge(edges, f.cond_nid, current_node, "control"),
                        !.current_node = f.old]
           frame == EnterBranch(b1, f.cond_nid, FALSE, FALSE, f.iffalse)
       IN  /\ SetBuilder(IF frame = <<>> THEN b1 ELSE [b1 EXCEPT !.current_node = f.cond_nid])
           /\ stack' = frame \o Tail(stack)
           /\ tree' = Append(tree, [k |-> "EndBranch"])
           /\ UNCHANGED <<bpc, inst, returned, nstmts, kvars>>

\* return self.pdg: the caller holds the generator's graph object
GenerateReturn ==
    /\ bpc = "visiting"
    /\ stack = <<>>
    /\ returned' = Append(returned, [inst |-> inst, tree |-> tree,
                                     graph |-> [nodes |-> nodes, edges |-> edges]])
    /\ bpc' = "idle"
    /\ UNCHANGED <<bstate, stack, inst, tree, nstmts, kvars>>

BNext ==
    \/ NewGenerator
    \/ Generate
    \/ GeneratePdg
    \/ VisitDecl
    \/ VisitAssignment
    \/ VisitFuncCall
    \/ VisitReturn
    \/ VisitIf
    \/ LeaveBranch
    \/ GenerateReturn

SpecBuild == BInit /\ [][BNext]_vars

(***************************************************************************)
(* Properties of the builder.                                              *)
(***************************************************************************)
Last == returned[Len(returned)]

\* a call has returned and its generator is still the newest one
Built == bpc = "idle" /\ returned # <<>> /\ Last.inst = inst

\* the newest call was the first one on its generator
FirstOnInstance == \A i \in 1..(Len(returned) - 1) : returned[i].inst # inst

EdgeKind(e, u, v) == IF <<u, v>> \in DOMAIN e THEN e[<<u, v>>] ELSE "none"

EdgesOfKind(e, t) == {p \in DOMAIN e : e[p] = t}

NoConditional(t) == \A i \in 1..Len(t) : t[i].k # "If"

\* C5: in the graph a build returns, every node but the first created has an
\* incoming control edge from the node that was current just before it was created
C5_ControlEdgeFromPreviousCurrent ==
    (Built /\ FirstOnInstance) =>
        \A i \in 2..Len(nodes) :
            /\ made[i].prev # NoNode
            /\ EdgeKind(edges, made[i].prev, nodes[i].id) = "control"

\* C6: a build of a tree without conditionals that makes N nodes returns exactly
\* N-1 control edges, the i-th created node linked to the (i+1)-th
C6_StraightLineChain ==
    (Built /\ FirstOnInstance /\ NoConditional(tree) /\ nodes # <<>>) =>
        /\ Cardinality(EdgesOfKind(edges, "control")) = Len(nodes) - 1
        /\ \A i \in 1..(Len(nodes) - 1) :
              EdgeKind(edges, nodes[i].id, nodes[i + 1].id) = "control"

DeclThenReturn == <<Decl("x", Constant("5")), Return(ID("x"))>>

\* C7: int x = 5; return x; builds "Decl x", "x = 5", "Return x" in this order plus
\* a use node "Use x" with a data edge from the assign node
C7_DeclInitThenReturnOfName ==
    (Built /\ FirstOnInstance /\ tree = DeclThenReturn) =>
        /\ Len(nodes) = 4
        /\ [i \in 1..3 |-> <<nodes[i].label, nodes[i].type>>]
              = <<<<"Decl x", "decl">>, <<"x = 5", "assign">>, <<"Return x", "return">>>>
        /\ <<nodes[4].label, nodes[4].type>> = <<"Use x", "use">>
        /\ EdgeKind(edges, nodes[2].id, nodes[4].id) = "data"

\* the graph object the caller of the i-th call holds now
HeldGraph(i) ==
    IF returned[i].inst = inst THEN [nodes |-> nodes, edges |-> edges]
    ELSE LET j == CHOOSE j \in i..Len(returned) :
                      /\ returned[j].inst = returned[i].inst
                      /\ \A k \in (j + 1)..Len(returned) : returned[k].inst # returned[i].inst
         IN  returned[j].graph

Shape(g) == [labels |-> [i \in 1..Len(g.nodes) |-> <<g.nodes[i].label, g.nodes[i].type>>],
             edges |-> g.edges]

\* C8: every call starts from an empty graph, an empty map and the first id; a
\* graph returned earlier is left as it was returned; the same tree built twice
\* gives the same (label, kind) sequence and the same edges
C8_BuildsAreIndependent ==
    /\ (bpc = "visiting" /\ tree = <<>>) =>
          (nodes = <<>> /\ edges = <<>> /\ last_assignment = <<>> /\ node_id = 0)
    /\ \A i \in 1..Len(returned) : HeldGraph(i) = returned[i].graph
    /\ \A i, j \in 1..Len(returned) :
          returned[i].tree = returned[j].tree =>
              Shape(returned[i].graph) = Shape(returned[j].graph)

IncomingData(e, v) == {p \in EdgesOfKind(e, "data") : p[2] = v}

\* the assign nodes for name among the first i-1 created nodes
AssignsBefore(name, i) ==
    {j \in 1..(i - 1) : nodes[j].type = "assign" /\ made[j].lval = name}

MaxOf(S) == CHOOSE m \in S : \A x \in S : x <= m

\* C10: a use node has exactly one incoming data edge; its source is the entry the
\* map held for the name when the use node was made, which is the most recent
\* assign node for that name, the node of the assignment itself inside its own
\* right-hand side
C10_UseLinkedFromLatestAssignment ==
    (Built /\ FirstOnInstance) =>
        \A i \in 1..Len(nodes) :
            nodes[i].type = "use" =>
                /\ IncomingData(edges, nodes[i].id) = {<<made[i].from, nodes[i].id>>}
                /\ AssignsBefore(made[i].use, i) # {}
                /\ made[i].from = nodes[MaxOf(AssignsBefore(made[i].use, i))].id

\* within one build a use node is linked from the newest node an assignment
\* statement made for its name
AssignmentBefore(name, i) ==
    {j \in AssignsBefore(name, i) : made[j].stmt}

UseLinkedFromLatestAssignmentStatement ==
    (Built /\ FirstOnInstance) =>
        \A i \in 1..Len(nodes) :
            nodes[i].type = "use" =>
                /\ IncomingData(edges, nodes[i].id) = {<<made[i].from, nodes[i].id>>}
                /\ AssignmentBefore(made[i].use, i) # {}
                /\ made[i].from = nodes[MaxOf(AssignmentBefore(made[i].use, i))].id

\* the number of branches a conditional of the tree has
Branches(c) == (IF c.iftrue THEN 1 ELSE 0) + (IF c.iffalse THEN 1 ELSE 0)

\* the index in t of the conditional whose last branch the end mark at i closes,
\* c counting the end marks passed on the way back that are still to be matched
RECURSIVE OpenerAt(_, _, _)
OpenerAt(t, i, c) ==
    IF t[i].k = "EndBranch" THEN OpenerAt(t, i - 1, c + 1)
    ELSE IF t[i].k = "If"
    THEN (IF c - Branches(t[i]) <= 0 THEN i ELSE OpenerAt(t, i - 1, c - Branches(t[i])))
    ELSE OpenerAt(t, i - 1, c)

IfCount(t, i) == Cardinality({j \in 1..i : t[j].k = "If"})

\* the position in nodes of the k-th if node
IfNodePos(k) ==
    CHOOSE q \in 1..Len(nodes) :
        /\ nodes[q].type = "if"
        /\ Cardinality({j \in 1..q : nodes[j].type = "if"}) = k

\* the first call on a generator is under way and has just left a branch
LeftBranch ==
    /\ bpc = "visiting"
    /\ \A i \in 1..Len(returned) : returned[i].inst # inst
    /\ tree # <<>>
    /\ tree[Len(tree)].k = "EndBranch"

\* the if node of the conditional the newest end mark belongs to
LeftIfPos == IfNodePos(IfCount(tree, OpenerAt(tree, Len(tree), 0)))

\* a conditional on the top level of the tree has just been visited completely
ConditionalDone == LeftBranch /\ stack = <<>>

\* C11: once a conditional has been visited completely the current node is again the
\* node that was current before the conditional was entered, so that the statement
\* after it is chained from that node; the false branch starts from the if node
C11_CurrentRestoredAfterConditional ==
    /\ (ConditionalDone /\ made[LeftIfPos].prev # NoNode) =>
          current_node = made[LeftIfPos].prev
    /\ (LeftBranch /\ stack # <<>> /\ Head(stack).cond_nid = nodes[LeftIfPos].id) =>
          current_node = nodes[LeftIfPos].id

\* what the restore yields: the if node itself, also for the branch that follows
CurrentIsIfNodeAfterBranch ==
    (LeftBranch /\ (stack # <<>> => Head(stack).cond_nid = nodes[LeftIfPos].id)) =>
        current_node = nodes[LeftIfPos].id

\* calls on generators of their own are independent
NoReuse ==
    /\ \A i, j \in 1..Len(returned) : i # j => returned[i].inst # returned[j].inst
    /\ bpc = "visiting" => \A i \in 1..Len(returned) : returned[i].inst # inst

SeparateBuildsAreIndependent ==
    NoReuse =>
        /\ \A i \in 1..Len(returned) : HeldGraph(i) = returned[i].graph
        /\ \A i, j \in 1..Len(returned) :
              returned[i].tree = returned[j].tree =>
                  Shape(returned[i].graph) = Shape(returned[j].graph)

(***************************************************************************)
(* Properties of the scorer.                                               *)
(***************************************************************************)
Returned == outcome = "returned"

\* C1: for every non-empty graph G and every rounds >= 0 the call on (G, G), the same
\* object passed twice or two equal graphs, returns exactly 1.0.
C1_IdentityScoreIsOne ==
    (Returned /\ h >= 0 /\ G[arg1].n > 0 /\ G[arg1] = G[arg2]) => similarity = FOne

\* equal graphs record equal histograms in every round: each round's ratio is 1 and
\* the returned score differs from 1.0 by the rounding of the weights alone
IdentityHistogramsEqual == G[arg1] = G[arg2] => hist1 = hist2

\* C2: the returned score lies in [0, 1], and in every round the intersection is at
\* most the union.
C2_ScoreInUnitInterval ==
    Returned =>
        /\ FLeq(FZero, similarity)
        /\ FLeq(similarity, FOne)
        /\ \A r \in 1..Len(hist1) : Intersect(hist1[r], hist2[r]) <= Union(hist1[r], hist2[r])

\* C3: the call with the arguments swapped records the same histograms, swapped, in
\* every round and returns the same score.
C3_Symmetric ==
    Returned =>
        LET sw == KRun(impl, G, arg2, arg1, h, KFrame0(DOMAIN G))
        IN  /\ sw.similarity = similarity
            /\ sw.hist1 = hist2
            /\ sw.hist2 = hist1

C3_Witness ==
    /\ Returned
    /\ arg1 # arg2
    /\ G[arg1] # G[arg2]
    /\ h >= 1
    /\ hist1[h + 1] # hist2[h + 1]
    /\ similarity # FZero

\* C4: a call with negative rounds never returns a score.
C4_NegativeRoundsSignalled == h < 0 => ~Returned

\* r synchronous relabelling steps applied to the kind labels, node by node
RECURSIVE RefLabel(_, _, _)
RefLabel(g, n, r) ==
    IF r = 0 THEN InitialLabel(g, n)
    ELSE LET nbs  == SetToSeq(Neighbors(g, n))
             outs == SortStr([k \in 1..Len(nbs) |->
                         RefLabel(g, nbs[k], r - 1) \o <<"_", g.edges[<<n, nbs[k]>>]>>])
         IN  RefLabel(g, n, r - 1) \o <<"|">>
                 \o (IF outs = <<>> THEN <<"LEAF">> ELSE JoinDash(outs))

RefHistogram(g, r) == Histogram(g, [n \in Nodes(g) |-> RefLabel(g, n, r)])

\* C9: the histogram recorded for round r is that of exactly r synchronous
\* relabelling steps, for each of the two graphs.
C9_RoundIsRSynchronousSteps ==
    \A r \in 1..Len(hist1) :
        /\ hist1[r] = RefHistogram(G[arg1], r - 1)
        /\ hist2[r] = RefHistogram(G[arg2], r - 1)

\* the same with two distinct graph objects, and in main.py with any arguments
RoundIsSynchronousUnlessAliased ==
    (impl = "main" \/ arg1 # arg2) => C9_RoundIsRSynchronousSteps
====
